---- MODULE Spec2Model ----
(***************************************************************************)
(* Asset reconciliation sensor of dagster                                  *)
(* (dagster/_core/definitions/asset_reconciliation_sensor.py).             *)
(*                                                                         *)
(* The event log is a sequence of events whose index is the storage id.    *)
(* Runs are launched, log ASSET_MATERIALIZATION_PLANNED and                *)
(* ASSET_MATERIALIZATION events and finish; the sensor is evaluated        *)
(* (sensor_fn) at arbitrary moments in between.  One evaluation builds a   *)
(* fresh CachingInstanceQueryer, walks the monitored assets in topological *)
(* order, returns at most one RunRequest and updates the sensor cursor.    *)
(***************************************************************************)
EXTENDS Integers, Sequences, FiniteSets, TLC

VARIABLES
    store,                      \* the event log: store[i] has storage_id i
    runs,                       \* runs[r] is the status of run r
    cursor,                     \* context.cursor, the serialized cursor
    tick,                       \* the last evaluation of sensor_fn
    wait_for_all_upstream,      \* sensor parameter
    wait_for_in_progress_runs,  \* sensor parameter
    step,                       \* position in the docstring scenario
    freshness,                  \* a freshness policy, its inputs and result
    queryer,                    \* a CachingInstanceQueryer and its calls
    storage                     \* an InMemoryEventLogStorage and its watchers

vars == <<store, runs, cursor, tick, wait_for_all_upstream,
          wait_for_in_progress_runs, step, freshness, queryer, storage>>

----------------------------------------------------------------------------
(* Bounds *)

MaxEvents == 3
MaxRuns == 2
MaxTime == 4        \* times are minutes in 0..MaxTime
MaxWindow == 2      \* minimum_freshness_minutes in 0..MaxWindow
MaxUpstream == 2    \* number of upstream assets of a freshness policy
MaxFailAt == 6      \* the instance may fail at its 1st..MaxFailAt-th query
MaxFaultEvents == 2 \* events of the event log in the system with faults
MaxFaultRuns == 1   \* runs in the system with faults
MaxQuerySteps == 4  \* events of the event log plus calls of the queryers
MaxStoredEvents == 2 \* events stored in a watched event log storage

----------------------------------------------------------------------------
(* Python values *)

\* Python's None where an int is expected (storage ids start at 1)
None == -1

\* Python's None where an EventLogRecord is expected
NoRecord == [storage_id |-> 0, asset_key |-> "None", run_id |-> 0]

\* truth value of an Optional[int]: None and 0 are falsy
Truthy(v) == v # None /\ v # 0

\* the empty dict
EmptyDict == [x \in {} |-> 0]

\* dict.get(key), None when absent
DictGet(dct, key) == IF key \in DOMAIN dct THEN dct[key] ELSE None

\* dct[key] = val
DictSet(dct, key, val) ==
    [x \in DOMAIN dct \cup {key} |-> IF x = key THEN val ELSE dct[x]]

Max(S) == CHOOSE x \in S : \A y \in S : y <= x

Min2(x, y) == IF x <= y THEN x ELSE y

\* max(x, y)
Max2(x, y) == IF x >= y THEN x ELSE y

Min(S) == CHOOSE x \in S : \A y \in S : x <= y

----------------------------------------------------------------------------
(* The asset graph of the docstring of build_asset_reconciliation_sensor:  *)
(*      a       b       c                                                  *)
(*       \     / \     /                                                   *)
(*          d       e                                                      *)
(*           \     /                                                       *)
(*              f                                                          *)
(* and the sensor over AssetSelection.assets(d, e, f).                     *)

AssetDeps ==
    [k \in {"a", "b", "c", "d", "e", "f"} |->
        CASE k = "d" -> {"a", "b"}
          [] k = "e" -> {"b", "c"}
          [] k = "f" -> {"d", "e"}
          [] OTHER -> {}]

Assets == DOMAIN AssetDeps

Selection == {"d", "e", "f"}

\* a fixed enumeration of the asset keys
AssetOrder == <<"a", "b", "c", "d", "e", "f">>

\* str(AssetKey([k]))
AssetKeyStr(k) == <<"AssetKey", k>>

\* AssetSelection.keys(a).upstream(depth=1).resolve(...): a and its parents
UpstreamDepth1(k) == {k} \cup AssetDeps[k]

get_upstream_mapping ==
    [k \in Selection |-> {p \in UpstreamDepth1(k) : p # k}]

upstream == get_upstream_mapping

----------------------------------------------------------------------------
(* toposort.toposort(upstream): the layers, parents first *)

ToposortNodes(up) == DOMAIN up \cup UNION {up[k] : k \in DOMAIN up}

ToposortDeps(up, n) == IF n \in DOMAIN up THEN up[n] \ {n} ELSE {}

RECURSIVE ToposortLayers(_, _, _)
ToposortLayers(up, remaining, done) ==
    IF remaining = {} THEN <<>>
    ELSE LET ordered == {n \in remaining : ToposortDeps(up, n) \subseteq done}
         IN  IF ordered = {} THEN <<>>
             ELSE <<ordered>> \o
                  ToposortLayers(up, remaining \ ordered, done \cup ordered)

\* the assets of S in the fixed enumeration
SeqOfAssets(S) == SelectSeq(AssetOrder, LAMBDA k : k \in S)

Reverse(s) == [i \in DOMAIN s |-> s[Len(s) + 1 - i]]

\* the order in which a for loop visits a Python set: the language fixes
\* none, two opposite ones are explored
SetIteration(S, rev) ==
    IF rev THEN Reverse(SeqOfAssets(S)) ELSE SeqOfAssets(S)

\* variant: the layers are unpacked last layer first
RECURSIVE FlattenLayers_ChildrenFirst(_, _, _)
FlattenLayers_ChildrenFirst(layers, keys, rev) ==
    IF layers = <<>> THEN <<>>
    ELSE FlattenLayers_ChildrenFirst(Tail(layers), keys, rev) \o
         SetIteration(Head(layers) \cap keys, rev)

\* [asset for layer in toposort_assets for asset in layer
\*  if asset in upstream.keys()]
RECURSIVE FlattenLayers(_, _, _)
FlattenLayers(layers, keys, rev) ==
    IF layers = <<>> THEN <<>>
    ELSE SetIteration(Head(layers) \cap keys, rev) \o
         FlattenLayers(Tail(layers), keys, rev)

\* the layers of the sensor's upstream mapping
UpstreamLayers == ToposortLayers(upstream, ToposortNodes(upstream), {})

ToposortAssets(rev) == FlattenLayers(UpstreamLayers, DOMAIN upstream, rev)

----------------------------------------------------------------------------
(* The instance: event log and run storage *)

MATERIALIZATION == "ASSET_MATERIALIZATION"
PLANNED == "ASSET_MATERIALIZATION_PLANNED"

IN_PROGRESS_RUN_STATUSES == {"STARTED"}

EventLogRecord(st, i) ==
    [storage_id |-> i, asset_key |-> st[i].asset_key, run_id |-> st[i].run_id]

\* instance.get_event_records(EventRecordsFilter(event_type, asset_key,
\* after_cursor), ascending=False, limit=1)
GetEventRecords(st, event_type, asset_key, after_cursor) ==
    LET ids == {i \in DOMAIN st :
                    /\ st[i].event_type = event_type
                    /\ st[i].asset_key = asset_key
                    /\ (after_cursor # None => i > after_cursor)}
    IN  IF ids = {} THEN <<>> ELSE <<EventLogRecord(st, Max(ids))>>

\* instance.get_records_for_run(run_id, of_type).records
GetRecordsForRun(st, run_id, of_type) ==
    {st[i].asset_key : i \in {j \in DOMAIN st : /\ st[j].run_id = run_id
                                                /\ st[j].event_type = of_type}}

\* instance.get_runs(RunsFilter(run_ids=[run_id], statuses=statuses))
GetRuns(rs, run_id, statuses) ==
    {r \in DOMAIN rs : r = run_id /\ rs[r] \in statuses}

----------------------------------------------------------------------------
(* CachingInstanceQueryer.  The five caches are the fields of q; every     *)
(* method returns its result and the caches as it leaves them.  q also     *)
(* carries the instance's health: the number of queries the instance has   *)
(* answered, the query at which it fails (fail_at, 0 for never) and        *)
(* whether that exception has been raised; once raised it propagates, no   *)
(* method does anything more.                                              *)

CachingInstanceQueryer(fail_at) ==
    [latest_materialization_record_cache |-> EmptyDict,
     no_materializations_after_cursor_cache |-> EmptyDict,
     latest_planned_materialization_cache |-> EmptyDict,
     run_planned_materializations_cache |-> EmptyDict,
     is_run_in_progress_cache |-> EmptyDict,
     queries |-> 0, fail_at |-> fail_at, raised |-> FALSE]

\* the queryer of an instance that does not fail
CachingInstanceQueryerInit == CachingInstanceQueryer(0)

\* no queryer has been called
NoQueryer == [q |-> CachingInstanceQueryerInit, calls |-> <<>>]

\* the run ids and the callbacks of the watchers of an event log storage
StorageRuns == {"run_1", "run_2"}

Callbacks == {"callback_1", "callback_2"}

\* InMemoryEventLogStorage.__init__, nothing preloaded
NoStorage ==
    [storage_id |-> 0, handlers |-> [r \in StorageRuns |-> {}],
     events |-> <<>>, registered |-> <<>>, pending |-> <<>>,
     delivered |-> <<>>, result |-> "None", propagated |-> FALSE]

\* variant: the queryer of the previous evaluation is used again
instance_queryer_Reused(fail_at) == queryer.q

\* "instance_queryer = CachingInstanceQueryer(instance)" of reconcile
instance_queryer(fail_at) == CachingInstanceQueryer(fail_at)

\* a call of self._instance: the next query, which raises if it is the
\* one at which the instance fails
instance_query(q) ==
    [q EXCEPT !.queries = @ + 1, !.raised = (q.queries + 1 = q.fail_at)]

\* variant: queries the event log without the after_cursor filter
get_latest_materialization_record_NoCursor(q, st, asset_key, after_cursor) ==
    IF q.raised THEN [q |-> q, ret |-> NoRecord]
    ELSE IF asset_key \in DOMAIN q.latest_materialization_record_cache
    THEN [q |-> q, ret |-> q.latest_materialization_record_cache[asset_key]]
    ELSE LET qq == instance_query(q)
             materialization_records ==
                 GetEventRecords(st, MATERIALIZATION, asset_key, None)
         IN  IF qq.raised THEN [q |-> qq, ret |-> NoRecord]
             ELSE IF materialization_records # <<>>
             THEN [q |-> [qq EXCEPT !.latest_materialization_record_cache =
                              DictSet(@, asset_key, materialization_records[1])],
                   ret |-> materialization_records[1]]
             ELSE [q |-> qq, ret |-> NoRecord]

\* variant: a cached record is returned whatever after_cursor is
get_latest_materialization_record_IgnoresCursor(q, st, asset_key, after_cursor) ==
    IF asset_key \in DOMAIN q.latest_materialization_record_cache
    THEN [q |-> q, ret |-> q.latest_materialization_record_cache[asset_key]]
    ELSE IF /\ asset_key \in DOMAIN q.no_materializations_after_cursor_cache
            /\ after_cursor # None
            /\ after_cursor >= q.no_materializations_after_cursor_cache[asset_key]
    THEN [q |-> q, ret |-> NoRecord]
    ELSE LET qq == instance_query(q)
             materialization_records ==
                 GetEventRecords(st, MATERIALIZATION, asset_key, after_cursor)
         IN  IF materialization_records # <<>>
             THEN [q |-> [qq EXCEPT !.latest_materialization_record_cache =
                              DictSet(@, asset_key, materialization_records[1])],
                   ret |-> materialization_records[1]]
             ELSE IF after_cursor # None
             THEN [q |-> [qq EXCEPT !.no_materializations_after_cursor_cache =
                              DictSet(@, asset_key, after_cursor)],
                   ret |-> NoRecord]
             ELSE [q |-> qq, ret |-> NoRecord]

\* variant: the negative cache keeps the highest after_cursor that found
\* nothing
get_latest_materialization_record_MaxFloor(q, st, asset_key, after_cursor) ==
    IF asset_key \in DOMAIN q.latest_materialization_record_cache
    THEN LET cached_record == q.latest_materialization_record_cache[asset_key]
         IN  IF after_cursor = None \/ after_cursor < cached_record.storage_id
             THEN [q |-> q, ret |-> cached_record]
             ELSE [q |-> q, ret |-> NoRecord]
    ELSE IF /\ asset_key \in DOMAIN q.no_materializations_after_cursor_cache
            /\ after_cursor # None
            /\ after_cursor >= q.no_materializations_after_cursor_cache[asset_key]
    THEN [q |-> q, ret |-> NoRecord]
    ELSE LET qq == instance_query(q)
             materialization_records ==
                 GetEventRecords(st, MATERIALIZATION, asset_key, after_cursor)
         IN  IF materialization_records # <<>>
             THEN [q |-> [qq EXCEPT !.latest_materialization_record_cache =
                              DictSet(@, asset_key, materialization_records[1])],
                   ret |-> materialization_records[1]]
             ELSE IF after_cursor # None
             THEN [q |-> [qq EXCEPT !.no_materializations_after_cursor_cache =
                              DictSet(@, asset_key,
                                  Max2(after_cursor,
                                       IF asset_key \in DOMAIN @
                                       THEN @[asset_key] ELSE after_cursor))],
                   ret |-> NoRecord]
             ELSE [q |-> qq, ret |-> NoRecord]

\* variant: the negative cache answers whatever after_cursor is
get_latest_materialization_record_AnyFloor(q, st, asset_key, after_cursor) ==
    IF asset_key \in DOMAIN q.latest_materialization_record_cache
    THEN LET cached_record == q.latest_materialization_record_cache[asset_key]
         IN  IF after_cursor = None \/ after_cursor < cached_record.storage_id
             THEN [q |-> q, ret |-> cached_record]
             ELSE [q |-> q, ret |-> NoRecord]
    ELSE IF /\ asset_key \in DOMAIN q.no_materializations_after_cursor_cache
            /\ after_cursor # None
    THEN [q |-> q, ret |-> NoRecord]
    ELSE LET qq == instance_query(q)
             materialization_records ==
                 GetEventRecords(st, MATERIALIZATION, asset_key, after_cursor)
         IN  IF materialization_records # <<>>
             THEN [q |-> [qq EXCEPT !.latest_materialization_record_cache =
                              DictSet(@, asset_key, materialization_records[1])],
                   ret |-> materialization_records[1]]
             ELSE IF after_cursor # None
             THEN [q |-> [qq EXCEPT !.no_materializations_after_cursor_cache =
                              DictSet(@, asset_key, after_cursor)],
                   ret |-> NoRecord]
             ELSE [q |-> qq, ret |-> NoRecord]

get_latest_materialization_record(q, st, asset_key, after_cursor) ==
    IF q.raised THEN [q |-> q, ret |-> NoRecord]
    ELSE IF asset_key \in DOMAIN q.latest_materialization_record_cache
    THEN LET cached_record == q.latest_materialization_record_cache[asset_key]
         IN  IF after_cursor = None \/ after_cursor < cached_record.storage_id
             THEN [q |-> q, ret |-> cached_record]
             ELSE [q |-> q, ret |-> NoRecord]
    ELSE IF /\ asset_key \in DOMAIN q.no_materializations_after_cursor_cache
            /\ after_cursor # None
            /\ after_cursor >= q.no_materializations_after_cursor_cache[asset_key]
    THEN [q |-> q, ret |-> NoRecord]
    ELSE LET qq == instance_query(q)
             materialization_records ==
                 GetEventRecords(st, MATERIALIZATION, asset_key, after_cursor)
         IN  IF qq.raised THEN [q |-> qq, ret |-> NoRecord]
             ELSE IF materialization_records # <<>>
             THEN [q |-> [qq EXCEPT !.latest_materialization_record_cache =
                              DictSet(@, asset_key, materialization_records[1])],
                   ret |-> materialization_records[1]]
             ELSE IF after_cursor # None
             THEN [q |-> [qq EXCEPT !.no_materializations_after_cursor_cache =
                              DictSet(@, asset_key,
                                  Min2(after_cursor,
                                       IF asset_key \in DOMAIN @
                                       THEN @[asset_key] ELSE after_cursor))],
                   ret |-> NoRecord]
             ELSE [q |-> qq, ret |-> NoRecord]

get_latest_planned_materialization_record(q, st, asset_key) ==
    IF q.raised THEN [q |-> q, ret |-> NoRecord]
    ELSE IF asset_key \in DOMAIN q.latest_planned_materialization_cache
    THEN [q |-> q, ret |-> q.latest_planned_materialization_cache[asset_key]]
    ELSE LET qq == instance_query(q)
             materialization_planned_event_records ==
                 GetEventRecords(st, PLANNED, asset_key, None)
         IN  IF qq.raised THEN [q |-> qq, ret |-> NoRecord]
             ELSE IF materialization_planned_event_records # <<>>
             THEN [q |-> [qq EXCEPT !.latest_planned_materialization_cache =
                              DictSet(@, asset_key,
                                      materialization_planned_event_records[1])],
                   ret |-> materialization_planned_event_records[1]]
             ELSE [q |-> qq, ret |-> NoRecord]

\* variant: asks whether the run planned any asset at all
run_planned_to_materialize_asset_AnyAsset(q, st, asset_key, run_id) ==
    IF q.raised THEN [q |-> q, ret |-> FALSE]
    ELSE IF run_id \in DOMAIN q.run_planned_materializations_cache
    THEN [q |-> q, ret |-> q.run_planned_materializations_cache[run_id] # {}]
    ELSE LET qq == instance_query(q)
             planned_assets == GetRecordsForRun(st, run_id, PLANNED)
         IN  IF qq.raised THEN [q |-> qq, ret |-> FALSE]
             ELSE [q |-> [qq EXCEPT !.run_planned_materializations_cache =
                              DictSet(@, run_id, planned_assets)],
                   ret |-> planned_assets # {}]

run_planned_to_materialize_asset(q, st, asset_key, run_id) ==
    IF q.raised THEN [q |-> q, ret |-> FALSE]
    ELSE IF run_id \in DOMAIN q.run_planned_materializations_cache
    THEN [q |-> q,
          ret |-> asset_key \in q.run_planned_materializations_cache[run_id]]
    ELSE LET qq == instance_query(q)
             planned_assets == GetRecordsForRun(st, run_id, PLANNED)
         IN  IF qq.raised THEN [q |-> qq, ret |-> FALSE]
             ELSE [q |-> [qq EXCEPT !.run_planned_materializations_cache =
                              DictSet(@, run_id, planned_assets)],
                   ret |-> asset_key \in planned_assets]

\* variant: filters the runs by no status, so that no run is in progress
is_run_in_progress_NoStatus(q, rs, run_id) ==
    IF q.raised THEN [q |-> q, ret |-> FALSE]
    ELSE IF run_id \in DOMAIN q.is_run_in_progress_cache
    THEN [q |-> q, ret |-> q.is_run_in_progress_cache[run_id]]
    ELSE LET qq == instance_query(q)
             in_progress == GetRuns(rs, run_id, {}) # {}
         IN  IF qq.raised THEN [q |-> qq, ret |-> FALSE]
             ELSE [q |-> [qq EXCEPT !.is_run_in_progress_cache =
                              DictSet(@, run_id, in_progress)],
                   ret |-> in_progress]

\* variant: the run storage is asked at every call
is_run_in_progress_Uncached(q, rs, run_id) ==
    LET qq == instance_query(q)
    IN  [q |-> qq, ret |-> GetRuns(rs, run_id, IN_PROGRESS_RUN_STATUSES) # {}]

is_run_in_progress(q, rs, run_id) ==
    IF q.raised THEN [q |-> q, ret |-> FALSE]
    ELSE IF run_id \in DOMAIN q.is_run_in_progress_cache
    THEN [q |-> q, ret |-> q.is_run_in_progress_cache[run_id]]
    ELSE LET qq == instance_query(q)
             in_progress == GetRuns(rs, run_id, IN_PROGRESS_RUN_STATUSES) # {}
         IN  IF qq.raised THEN [q |-> qq, ret |-> FALSE]
             ELSE [q |-> [qq EXCEPT !.is_run_in_progress_cache =
                              DictSet(@, run_id, in_progress)],
                   ret |-> in_progress]

----------------------------------------------------------------------------
(* _get_parent_updates.  A record is <<updated, cursor_val>>.  The visit   *)
(* of one parent yields the queryer as it leaves it, the record of the     *)
(* parent and whether the function returns at once (stop).                 *)

\* "if materialization_planned_event_record: if is_run_in_progress(run_id)"
planned_run_in_progress(planned, rs) ==
    IF planned.ret # NoRecord
    THEN is_run_in_progress(planned.q, rs, planned.ret.run_id)
    ELSE [q |-> planned.q, ret |-> FALSE]

\* "if wait_for_in_progress_runs": is p being materialized by a run in progress
parent_in_progress(q, p, wait_in_progress, st, rs) ==
    IF wait_in_progress
    THEN planned_run_in_progress(
             get_latest_planned_materialization_record(q, st, p), rs)
    ELSE [q |-> q, ret |-> FALSE]

\* parent_asset_event_records[p] = (parent_updated, storage_id)
parent_updated_record(record, planned_current) ==
    [q |-> planned_current.q, stop |-> FALSE,
     rec |-> <<~planned_current.ret, record.storage_id>>]

\* variant: a parent without a new materialization consumes the event log
\* up to its end
parent_record_ConsumesLog(parent_materialization_record, current_asset, st) ==
    IF parent_materialization_record.ret # NoRecord
    THEN parent_updated_record(parent_materialization_record.ret,
             run_planned_to_materialize_asset(
                 parent_materialization_record.q, st, current_asset,
                 parent_materialization_record.ret.run_id))
    ELSE [q |-> parent_materialization_record.q, stop |-> FALSE,
          rec |-> <<FALSE, IF st = <<>> THEN None ELSE Len(st)>>]

\* "if parent_materialization_record: ... else: ..."
parent_record(parent_materialization_record, current_asset, st) ==
    IF parent_materialization_record.ret # NoRecord
    THEN parent_updated_record(parent_materialization_record.ret,
             run_planned_to_materialize_asset(
                 parent_materialization_record.q, st, current_asset,
                 parent_materialization_record.ret.run_id))
    ELSE [q |-> parent_materialization_record.q, stop |-> FALSE,
          rec |-> <<FALSE, None>>]

\* the else branch of the loop body, once the in-progress check is made
parent_not_selected(in_progress, p, current_asset, asset_cursor, st) ==
    IF in_progress.q.raised \/ in_progress.ret
    THEN [q |-> in_progress.q, stop |-> TRUE, rec |-> <<FALSE, None>>]
    ELSE parent_record(
             get_latest_materialization_record(in_progress.q, st, p, asset_cursor),
             current_asset, st)

\* the body of "for p in parent_assets"
parent_visit(q, p, current_asset, asset_cursor, will_materialize_set, wait_in_progress, st, rs) ==
    IF p \in will_materialize_set
    THEN [q |-> q, stop |-> FALSE, rec |-> <<TRUE, None>>]
    ELSE parent_not_selected(parent_in_progress(q, p, wait_in_progress, st, rs),
                             p, current_asset, asset_cursor, st)

\* parents[i..] are still to be visited, records is
\* parent_asset_event_records so far, visit the visit of parents[i]
RECURSIVE get_parent_updates_loop(_, _, _, _, _, _, _, _, _, _)

\* variant: the early return keeps the records of the parents visited before
get_parent_updates_next_KeepsRecords(parents, i, records, visit, current_asset, asset_cursor, will_materialize_set, wait_in_progress, st, rs) ==
    IF visit.q.raised THEN [q |-> visit.q, records |-> records]
    ELSE IF visit.stop
    THEN [q |-> visit.q,
          records |-> [pp \in {parents[j] : j \in DOMAIN parents} |->
                          IF pp \in DOMAIN records THEN records[pp]
                          ELSE <<FALSE, None>>]]
    ELSE get_parent_updates_loop(parents, i + 1,
             DictSet(records, parents[i], visit.rec), visit.q, current_asset,
             asset_cursor, will_materialize_set, wait_in_progress, st, rs)

get_parent_updates_next(parents, i, records, visit, current_asset, asset_cursor, will_materialize_set, wait_in_progress, st, rs) ==
    IF visit.q.raised THEN [q |-> visit.q, records |-> records]
    ELSE IF visit.stop
    THEN [q |-> visit.q,
          records |-> [pp \in {parents[j] : j \in DOMAIN parents} |->
                          <<FALSE, None>>]]
    ELSE get_parent_updates_loop(parents, i + 1,
             DictSet(records, parents[i], visit.rec), visit.q, current_asset,
             asset_cursor, will_materialize_set, wait_in_progress, st, rs)

get_parent_updates_loop(parents, i, records, q, current_asset, asset_cursor, will_materialize_set, wait_in_progress, st, rs) ==
    IF i > Len(parents) THEN [q |-> q, records |-> records]
    ELSE get_parent_updates_next(parents, i, records,
             parent_visit(q, parents[i], current_asset, asset_cursor,
                          will_materialize_set, wait_in_progress, st, rs),
             current_asset, asset_cursor, will_materialize_set,
             wait_in_progress, st, rs)

get_parent_updates(current_asset, parents, asset_cursor, will_materialize_set, wait_in_progress, q, st, rs) ==
    get_parent_updates_loop(parents, 1, EmptyDict, q, current_asset,
        asset_cursor, will_materialize_set, wait_in_progress, st, rs)

----------------------------------------------------------------------------
(* reconcile *)

\* variant: any, whatever wait_for_all_upstream is
Condition_AlwaysAny(wait_all, records) ==
    \E p \in DOMAIN records : records[p][1]

\* variant: all, whatever wait_for_all_upstream is
Condition_AlwaysAll(wait_all, records) ==
    \A p \in DOMAIN records : records[p][1]

\* variant: all looks only at the parents that have a materialization record
Condition_SkipsMissing(wait_all, records) ==
    IF wait_all
    THEN \A p \in DOMAIN records :
             (records[p][1] \/ records[p][2] # None) => records[p][1]
    ELSE \E p \in DOMAIN records : records[p][1]

\* variant: all of no flags is false
Condition_EmptyIsFalse(wait_all, records) ==
    IF wait_all THEN /\ DOMAIN records # {}
                     /\ \A p \in DOMAIN records : records[p][1]
                ELSE \E p \in DOMAIN records : records[p][1]

\* condition = all if wait_for_all_upstream else any, over the updated flags
Condition(wait_all, records) ==
    IF wait_all THEN \A p \in DOMAIN records : records[p][1]
                ELSE \E p \in DOMAIN records : records[p][1]

\* variant: the candidates without the asset's previous cursor
CursorUpdateCandidates_NoPrevious(records, current_asset_cursor) ==
    {records[p][2] : p \in {pp \in DOMAIN records : Truthy(records[pp][2])}}

\* cursor_update_candidates
CursorUpdateCandidates(records, current_asset_cursor) ==
    {records[p][2] : p \in {pp \in DOMAIN records : Truthy(records[pp][2])}}
    \cup (IF Truthy(current_asset_cursor) THEN {current_asset_cursor} ELSE {})

\* variant: the cursor entry is computed whether or not the asset is
\* selected
reconcile_asset_AlwaysConsumes(acc, current_asset_key, current_asset_cursor, updates, wait_all) ==
    LET parent_update_records == updates.records
        selected == Condition(wait_all, parent_update_records)
        cursor_update_candidates ==
            CursorUpdateCandidates(parent_update_records, current_asset_cursor)
        should_materialize ==
            IF selected THEN acc.should_materialize \cup {current_asset_key}
                        ELSE acc.should_materialize
    IN  IF updates.q.raised THEN [acc EXCEPT !.q = updates.q]
        ELSE
        [q |-> updates.q,
         should_materialize |-> should_materialize,
         walk |-> Append(acc.walk, [asset |-> current_asset_key,
                                    should_materialize |-> should_materialize]),
         newly_consumed |->
             IF cursor_update_candidates # {}
             THEN DictSet(acc.newly_consumed, AssetKeyStr(current_asset_key),
                          Max(cursor_update_candidates))
             ELSE acc.newly_consumed,
         parent_update_records |->
             DictSet(acc.parent_update_records, current_asset_key,
                     parent_update_records)]

\* "if condition(...)": what the loop body does with the parent updates;
\* acc carries the queryer, should_materialize, newly_consumed, the parent
\* records of every asset visited and the walk: the assets in the order
\* of their visits, each with should_materialize as its visit leaves it
reconcile_asset(acc, current_asset_key, current_asset_cursor, updates, wait_all) ==
    LET parent_update_records == updates.records
        selected == Condition(wait_all, parent_update_records)
        cursor_update_candidates ==
            CursorUpdateCandidates(parent_update_records, current_asset_cursor)
        should_materialize ==
            IF selected THEN acc.should_materialize \cup {current_asset_key}
                        ELSE acc.should_materialize
    IN  IF updates.q.raised THEN [acc EXCEPT !.q = updates.q]
        ELSE
        [q |-> updates.q,
         should_materialize |-> should_materialize,
         walk |-> Append(acc.walk, [asset |-> current_asset_key,
                                    should_materialize |-> should_materialize]),
         newly_consumed |->
             IF selected /\ cursor_update_candidates # {}
             THEN DictSet(acc.newly_consumed, AssetKeyStr(current_asset_key),
                          Max(cursor_update_candidates))
             ELSE acc.newly_consumed,
         parent_update_records |->
             DictSet(acc.parent_update_records, current_asset_key,
                     parent_update_records)]

\* the body of "for current_asset_key in toposort_assets"
reconcile_visit(acc, current_asset_key, current_asset_cursor, wait_all, wait_in_progress, rev, st, rs) ==
    reconcile_asset(acc, current_asset_key, current_asset_cursor,
        get_parent_updates(current_asset_key,
            SetIteration(upstream[current_asset_key], rev),
            current_asset_cursor, acc.should_materialize, wait_in_progress,
            acc.q, st, rs),
        wait_all)

RECURSIVE reconcile_loop(_, _, _, _, _, _, _, _, _)
reconcile_loop(toposort_assets, i, acc, latest_consumed, wait_all, wait_in_progress, rev, st, rs) ==
    IF i > Len(toposort_assets) \/ acc.q.raised THEN acc
    ELSE reconcile_loop(toposort_assets, i + 1,
             reconcile_visit(acc, toposort_assets[i],
                 DictGet(latest_consumed, AssetKeyStr(toposort_assets[i])),
                 wait_all, wait_in_progress, rev, st, rs),
             latest_consumed, wait_all, wait_in_progress, rev, st, rs)

RunRequest(asset_selection) ==
    [run_key |-> "None", asset_selection |-> asset_selection, tags |-> "run_tags"]

\* variant: one RunRequest per asset of should_materialize
reconcile_return_PerAsset(acc) ==
    [run_requests |->
         [i \in 1..Cardinality(acc.should_materialize) |->
             RunRequest({SeqOfAssets(acc.should_materialize)[i]})],
     newly_consumed |-> acc.newly_consumed,
     should_materialize |-> acc.should_materialize,
     walk |-> acc.walk,
     parent_update_records |-> acc.parent_update_records,
     raised |-> acc.q.raised, queries |-> acc.q.queries]

\* "run_requests = ...; return run_requests, newly_consumed...", or the
\* exception of the instance and what the walk had computed by then
reconcile_return(acc) ==
    [run_requests |->
         IF Cardinality(acc.should_materialize) > 0
         THEN <<RunRequest(acc.should_materialize)>> ELSE <<>>,
     newly_consumed |-> acc.newly_consumed,
     should_materialize |-> acc.should_materialize,
     walk |-> acc.walk,
     parent_update_records |-> acc.parent_update_records,
     raised |-> acc.q.raised, queries |-> acc.q.queries]

reconcile(rev, st, rs, fail_at, wait_in_progress, wait_all, latest_consumed) ==
    reconcile_return(
        reconcile_loop(ToposortAssets(rev), 1,
            [q |-> instance_queryer(fail_at),
             should_materialize |-> {},
             walk |-> <<>>,
             newly_consumed |-> EmptyDict,
             parent_update_records |-> EmptyDict],
            latest_consumed, wait_all, wait_in_progress, rev, st, rs))

----------------------------------------------------------------------------
(* The cursor codec and sensor_fn *)

\* json.dumps of a Dict[str, int]: the entries of the JSON object
serialize_cursor_dict(cursor_dict) ==
    LET order == SeqOfAssets({k \in Assets : AssetKeyStr(k) \in DOMAIN cursor_dict})
    IN  [i \in DOMAIN order |->
            <<AssetKeyStr(order[i]), cursor_dict[AssetKeyStr(order[i])]>>]

\* json.loads: for a repeated key the last entry wins
deserialize_cursor_dict(text) ==
    [k \in {text[i][1] : i \in DOMAIN text} |->
        text[Max({i \in DOMAIN text : text[i][1] = k})][2]]

\* merge_dicts(left, right): the entries of right take precedence
merge_dicts(left, right) ==
    [k \in DOMAIN left \cup DOMAIN right |->
        IF k \in DOMAIN right THEN right[k] ELSE left[k]]

NoTick ==
    [evaluated |-> FALSE, cursor_in |-> EmptyDict, store_len |-> 0,
     runs |-> <<>>, run_requests |-> <<>>, newly_consumed |-> EmptyDict,
     should_materialize |-> {}, walk |-> <<>>,
     parent_update_records |-> EmptyDict,
     raised |-> "None", queries |-> 0, fail_at |-> 0]

\* a cursor text that is not JSON
InvalidJson == <<<<<<"Invalid", "JSON">>, 0>>>>

\* json.loads raises JSONDecodeError
json_loads_raises(text) == text = InvalidJson

\* variant: the newly consumed ids, not merged into the previous cursor
update_cursor_NoMerge(latest_consumed, newly_consumed) ==
    serialize_cursor_dict(newly_consumed)

\* variant: merged the other way round, the previous entries winning
update_cursor_PreviousWins(latest_consumed, newly_consumed) ==
    serialize_cursor_dict(merge_dicts(newly_consumed, latest_consumed))

\* the argument of context.update_cursor
update_cursor(latest_consumed, newly_consumed) ==
    serialize_cursor_dict(merge_dicts(latest_consumed, newly_consumed))

\* what the evaluation leaves behind; run_requests is what it returned
TickRecord(latest_consumed, result, fail_at, raised) ==
    [evaluated |-> TRUE,
     cursor_in |-> latest_consumed,
     store_len |-> Len(store),
     runs |-> runs,
     run_requests |-> IF raised = "None" THEN result.run_requests ELSE <<>>,
     newly_consumed |-> result.newly_consumed,
     should_materialize |-> result.should_materialize,
     walk |-> result.walk,
     parent_update_records |-> result.parent_update_records,
     raised |-> raised, queries |-> result.queries, fail_at |-> fail_at]

\* variant: the cursor is updated with what the walk had computed when
\* reconcile raised
sensor_fn_return_UpdatesOnError(latest_consumed, result, fail_at) ==
    /\ cursor' = update_cursor(latest_consumed, result.newly_consumed)
    /\ tick' = TickRecord(latest_consumed, result, fail_at,
                   IF result.raised THEN "InstanceError" ELSE "None")
    /\ UNCHANGED <<store, runs, wait_for_all_upstream,
                   wait_for_in_progress_runs, freshness, queryer,
                   storage>>

\* what sensor_fn does with the result of reconcile: when reconcile raised,
\* the exception leaves sensor_fn before context.update_cursor
sensor_fn_return(latest_consumed, result, fail_at) ==
    /\ cursor' = IF result.raised THEN cursor
                 ELSE update_cursor(latest_consumed, result.newly_consumed)
    /\ tick' = TickRecord(latest_consumed, result, fail_at,
                   IF result.raised THEN "InstanceError" ELSE "None")
    /\ UNCHANGED <<store, runs, wait_for_all_upstream,
                   wait_for_in_progress_runs, freshness, queryer,
                   storage>>

\* "_deserialize_cursor_dict(context.cursor) if context.cursor else {}"
latest_consumed_storage_ids ==
    IF cursor # <<>> THEN deserialize_cursor_dict(cursor) ELSE EmptyDict

\* _deserialize_cursor_dict raised: sensor_fn ends before reconcile
sensor_fn_raises ==
    /\ cursor' = cursor
    /\ tick' = [NoTick EXCEPT !.evaluated = TRUE,
                              !.store_len = Len(store),
                              !.runs = runs,
                              !.raised = "JSONDecodeError"]
    /\ UNCHANGED <<store, runs, wait_for_all_upstream,
                   wait_for_in_progress_runs, freshness, queryer,
                   storage>>

\* one evaluation of the sensor against an instance that fails at its
\* fail_at-th query (0: never)
sensor_fn_with(rev, fail_at) ==
    IF cursor # <<>> /\ json_loads_raises(cursor)
    THEN sensor_fn_raises
    ELSE sensor_fn_return(latest_consumed_storage_ids,
             reconcile(rev, store, runs, fail_at, wait_for_in_progress_runs,
                       wait_for_all_upstream, latest_consumed_storage_ids),
             fail_at)

\* one evaluation of the sensor, the instance answering every query
sensor_fn(rev) == sensor_fn_with(rev, 0)

----------------------------------------------------------------------------
(* The runs that write to the event log *)

\* the planned-materialization sets of the runs of the open environment
PlanSets == {{"a"}, {"d"}}

\* the assets the runs of the open environment materialize
MaterializedAssets == {"a", "b", "d"}

PlannedEvents(S, run_id) ==
    LET order == SeqOfAssets(S)
    IN  [i \in DOMAIN order |->
            [event_type |-> PLANNED, asset_key |-> order[i], run_id |-> run_id]]

\* a run is created: one planned event per asset it will materialize
launch_run(S) ==
    /\ store' = store \o PlannedEvents(S, Len(runs) + 1)
    /\ runs' = Append(runs, "STARTED")
    /\ UNCHANGED <<cursor, tick, wait_for_all_upstream,
                   wait_for_in_progress_runs, freshness, queryer,
                   storage>>

\* store_event of a materialization: the next storage id
store_event(run_id, asset_key) ==
    /\ runs[run_id] \in IN_PROGRESS_RUN_STATUSES
    /\ store' = Append(store, [event_type |-> MATERIALIZATION,
                               asset_key |-> asset_key, run_id |-> run_id])
    /\ UNCHANGED <<runs, cursor, tick, wait_for_all_upstream,
                   wait_for_in_progress_runs, freshness, queryer,
                   storage>>

\* the run leaves the in-progress statuses
finish_run(run_id) ==
    /\ runs[run_id] \in IN_PROGRESS_RUN_STATUSES
    /\ runs' = [runs EXCEPT ![run_id] = "SUCCESS"]
    /\ UNCHANGED <<store, cursor, tick, wait_for_all_upstream,
                   wait_for_in_progress_runs, freshness, queryer,
                   storage>>

----------------------------------------------------------------------------
(* freshness_policy.py.  Times are integer minutes; the values of          *)
(* upstream_materialization_times are a sequence in the order in which     *)
(* the mapping is iterated, None for an upstream without materialization.  *)

\* variant: an upstream without materialization time is skipped
RECURSIVE minimum_minutes_late_loop_SkipsMissing(_, _, _, _)
minimum_minutes_late_loop_SkipsMissing(times, i, minutes_late, minimum_time) ==
    IF i > Len(times) THEN minutes_late
    ELSE minimum_minutes_late_loop_SkipsMissing(times, i + 1,
             IF times[i] # None /\ times[i] < minimum_time
             THEN Max2(minutes_late, minimum_time - times[i])
             ELSE minutes_late,
             minimum_time)

\* "for upstream_time in upstream_materialization_times.values()" of
\* MinimumFreshnessPolicy.minutes_late
RECURSIVE minimum_minutes_late_loop(_, _, _, _)
minimum_minutes_late_loop(times, i, minutes_late, minimum_time) ==
    IF i > Len(times) THEN minutes_late
    ELSE IF times[i] = None THEN None
    ELSE minimum_minutes_late_loop(times, i + 1,
             IF times[i] < minimum_time
             THEN Max2(minutes_late, minimum_time - times[i])
             ELSE minutes_late,
             minimum_time)

\* MinimumFreshnessPolicy.minutes_late
minimum_minutes_late(minimum_freshness_minutes, evaluation_time, upstream_materialization_times) ==
    minimum_minutes_late_loop(upstream_materialization_times, 1, 0,
        evaluation_time - minimum_freshness_minutes)

\* the schedule "every period minutes": its ticks are the multiples of period
CronPeriods == {2, 3}

\* next(croniter(cron_schedule, t, is_prev=True)): the latest tick of the
\* schedule strictly before t
croniter_prev(period, t) == ((t - 1) \div period) * period

\* "while latest_required_tick + minimum_freshness_duration > evaluation_time"
RECURSIVE latest_required_tick_loop(_, _, _, _)
latest_required_tick_loop(period, latest_required_tick, minimum_freshness_duration, evaluation_time) ==
    IF latest_required_tick + minimum_freshness_duration > evaluation_time
    THEN latest_required_tick_loop(period,
             croniter_prev(period, latest_required_tick),
             minimum_freshness_duration, evaluation_time)
    ELSE latest_required_tick

\* "for upstream_materialization_time in ...values()" of
\* CronMinimumFreshnessPolicy.minutes_late
RECURSIVE cron_minutes_late_loop(_, _, _, _, _)
cron_minutes_late_loop(times, i, minutes_late, latest_required_tick, late_by) ==
    IF i > Len(times) THEN minutes_late
    ELSE IF times[i] = None THEN None
    ELSE cron_minutes_late_loop(times, i + 1,
             IF times[i] < latest_required_tick
             THEN Max2(minutes_late, late_by) ELSE minutes_late,
             latest_required_tick, late_by)

\* variant: expected_by_time is the tick itself
cron_minutes_late_from_NoWindow(latest_required_tick, minimum_freshness_duration, evaluation_time, times) ==
    cron_minutes_late_loop(times, 1, 0, latest_required_tick,
        evaluation_time - latest_required_tick)

\* the loop, once latest_required_tick is found; late_by is
\* evaluation_time - expected_by_time
cron_minutes_late_from(latest_required_tick, minimum_freshness_duration, evaluation_time, times) ==
    cron_minutes_late_loop(times, 1, 0, latest_required_tick,
        evaluation_time - (latest_required_tick + minimum_freshness_duration))

\* CronMinimumFreshnessPolicy.minutes_late
cron_minutes_late(minimum_freshness_minutes, period, evaluation_time, upstream_materialization_times) ==
    cron_minutes_late_from(
        latest_required_tick_loop(period, croniter_prev(period, evaluation_time),
            minimum_freshness_minutes, evaluation_time),
        minimum_freshness_minutes, evaluation_time,
        upstream_materialization_times)

\* no freshness policy is being evaluated
NoFreshness ==
    [policy |-> "None", minimum_freshness_minutes |-> 0, period |-> 1,
     evaluation_time |-> 0, upstream_materialization_times |-> <<>>,
     evaluated |-> FALSE, minutes_late |-> None]

Times == 0..MaxTime

\* the values of the mappings of at most MaxUpstream upstream assets
UpstreamTimes ==
    UNION {[1..n -> Times \cup {None}] : n \in 0..MaxUpstream}

FreshnessInit ==
    /\ store = <<>>
    /\ runs = <<>>
    /\ cursor = <<>>
    /\ tick = NoTick
    /\ wait_for_all_upstream = FALSE
    /\ wait_for_in_progress_runs = TRUE
    /\ step = [pos |-> 0, launched |-> {}]
    /\ queryer = NoQueryer
    /\ storage = NoStorage
    /\ \E w \in 0..MaxWindow, p \in CronPeriods, t \in Times, u \in UpstreamTimes :
          freshness = [NoFreshness EXCEPT !.minimum_freshness_minutes = w,
                                          !.period = p,
                                          !.evaluation_time = t,
                                          !.upstream_materialization_times = u]

MinimumMinutesLate ==
    /\ ~freshness.evaluated
    /\ freshness' = [freshness EXCEPT
           !.policy = "MinimumFreshnessPolicy",
           !.evaluated = TRUE,
           !.minutes_late = minimum_minutes_late(
               freshness.minimum_freshness_minutes, freshness.evaluation_time,
               freshness.upstream_materialization_times)]
    /\ UNCHANGED <<store, runs, cursor, tick, wait_for_all_upstream,
                   wait_for_in_progress_runs, step, queryer,
                   storage>>

CronMinutesLate ==
    /\ ~freshness.evaluated
    /\ freshness' = [freshness EXCEPT
           !.policy = "CronMinimumFreshnessPolicy",
           !.evaluated = TRUE,
           !.minutes_late = cron_minutes_late(
               freshness.minimum_freshness_minutes, freshness.period,
               freshness.evaluation_time,
               freshness.upstream_materialization_times)]
    /\ UNCHANGED <<store, runs, cursor, tick, wait_for_all_upstream,
                   wait_for_in_progress_runs, step, queryer,
                   storage>>

FreshnessNext == MinimumMinutesLate \/ CronMinutesLate

SpecFreshness == FreshnessInit /\ [][FreshnessNext]_vars

----------------------------------------------------------------------------
(* The open system: any run may log any materialization *)

Init ==
    /\ store = <<>>
    /\ runs = <<>>
    /\ cursor = <<>>
    /\ tick = NoTick
    /\ wait_for_all_upstream \in BOOLEAN
    /\ wait_for_in_progress_runs \in BOOLEAN
    /\ step = [pos |-> 0, launched |-> {}]
    /\ freshness = NoFreshness
    /\ queryer = NoQueryer
    /\ storage = NoStorage

LaunchRun ==
    /\ Len(runs) < MaxRuns
    /\ \E S \in PlanSets :
        /\ Len(store) + Cardinality(S) <= MaxEvents
        /\ launch_run(S)
    /\ UNCHANGED step

Materialize ==
    /\ Len(store) < MaxEvents
    /\ \E r \in DOMAIN runs : \E k \in MaterializedAssets : store_event(r, k)
    /\ UNCHANGED step

FinishRun ==
    /\ \E r \in DOMAIN runs : finish_run(r)
    /\ UNCHANGED step

Tick ==
    /\ \E rev \in BOOLEAN : sensor_fn(rev)
    /\ UNCHANGED step

Next == LaunchRun \/ Materialize \/ FinishRun \/ Tick

Spec == Init /\ [][Next]_vars

----------------------------------------------------------------------------
(* The open system with faults: the instance may fail at any query of an   *)
(* evaluation, and the persisted cursor may be overwritten from outside    *)
(* with a text that is not a JSON object of integers.                      *)

\* a JSON value that is not an integer (a string, say)
NotAnInt == -2

\* the text decodes into a map from asset-key string to integer
DecodesToIntMap(text) ==
    /\ ~json_loads_raises(text)
    /\ \A i \in DOMAIN text : text[i][2] # NotAnInt

\* the cursor texts written from outside: no JSON at all, or the current
\* entries and one more, for the asset a, whose value is not an integer
CorruptedCursors(text) ==
    {InvalidJson, Append(text, <<AssetKeyStr("a"), NotAnInt>>)}

FaultsInit ==
    /\ store = <<>>
    /\ runs = <<>>
    /\ cursor = <<>>
    /\ tick = NoTick
    /\ wait_for_all_upstream = FALSE
    /\ wait_for_in_progress_runs \in BOOLEAN
    /\ step = [pos |-> 0, launched |-> {}]
    /\ freshness = NoFreshness
    /\ queryer = NoQueryer
    /\ storage = NoStorage

CorruptCursor ==
    /\ DecodesToIntMap(cursor)
    /\ cursor' \in CorruptedCursors(cursor)
    /\ UNCHANGED <<store, runs, tick, wait_for_all_upstream,
                   wait_for_in_progress_runs, step, freshness, queryer,
                   storage>>

FaultyTick ==
    /\ \E rev \in BOOLEAN : \E fail_at \in 0..MaxFailAt :
          sensor_fn_with(rev, fail_at)
    /\ UNCHANGED step

FaultsNext ==
    \/ Len(store) < MaxFaultEvents /\ Len(runs) < MaxFaultRuns /\ LaunchRun
    \/ Len(store) < MaxFaultEvents /\ Materialize
    \/ FinishRun
    \/ CorruptCursor
    \/ FaultyTick

SpecFaults == FaultsInit /\ [][FaultsNext]_vars

----------------------------------------------------------------------------
(* The evaluations at the grain of the calls of their queryers: reconcile  *)
(* builds a CachingInstanceQueryer and calls its four methods one after    *)
(* the other, while the runs go on writing to the event log.  calls is the *)
(* history of the constructions and calls: the arguments, the result,      *)
(* whether the instance was queried, the event log length at the moment of *)
(* the call and, for a call about a run, whether the run was in progress   *)
(* at that moment.                                                         *)

QueryAssets == {"a", "d"}

AfterCursors == {None} \cup (0..Len(store))

\* the run ids asked about are run ids of event records: those of the runs
QueryRuns == DOMAIN runs

\* the runs materialize the assets that are asked about
QueryerMaterialize ==
    /\ \E r \in DOMAIN runs : \E k \in QueryAssets : store_event(r, k)
    /\ UNCHANGED step

\* the queryer after a call returned res
Called(method, asset_key, run_id, after_cursor, res) ==
    [q |-> res.q,
     calls |-> Append(queryer.calls,
         [method |-> method, asset_key |-> asset_key, run_id |-> run_id,
          after_cursor |-> after_cursor, ret |-> res.ret,
          queried |-> res.q.queries = queryer.q.queries + 1,
          store_len |-> Len(store),
          in_progress |-> run_id \in DOMAIN runs
                              /\ runs[run_id] \in IN_PROGRESS_RUN_STATUSES])]

\* the history of the event log and of the calls may grow
QuerySteps == Len(store) + Len(queryer.calls) < MaxQuerySteps

QueryerInit ==
    /\ store = <<>>
    /\ runs = <<>>
    /\ cursor = <<>>
    /\ tick = NoTick
    /\ wait_for_all_upstream = FALSE
    /\ wait_for_in_progress_runs = TRUE
    /\ step = [pos |-> 0, launched |-> {}]
    /\ freshness = NoFreshness
    /\ queryer = NoQueryer
    /\ storage = NoStorage

\* "instance_queryer = CachingInstanceQueryer(instance)" of reconcile: the
\* next evaluation begins
NewQueryer ==
    /\ QuerySteps
    /\ queryer' = Called("CachingInstanceQueryer", "None", 0, None,
                         [q |-> instance_queryer(0), ret |-> FALSE])
    /\ UNCHANGED <<store, runs, cursor, tick, wait_for_all_upstream,
                   wait_for_in_progress_runs, step, freshness, storage>>

GetLatestMaterializationRecord ==
    /\ QuerySteps
    /\ \E asset_key \in QueryAssets : \E after_cursor \in AfterCursors :
          queryer' = Called("get_latest_materialization_record",
                            asset_key, 0, after_cursor,
                            get_latest_materialization_record(
                                queryer.q, store, asset_key, after_cursor))
    /\ UNCHANGED <<store, runs, cursor, tick, wait_for_all_upstream,
                   wait_for_in_progress_runs, step, freshness, storage>>

GetLatestPlannedMaterializationRecord ==
    /\ QuerySteps
    /\ \E asset_key \in QueryAssets :
          queryer' = Called("get_latest_planned_materialization_record",
                            asset_key, 0, None,
                            get_latest_planned_materialization_record(
                                queryer.q, store, asset_key))
    /\ UNCHANGED <<store, runs, cursor, tick, wait_for_all_upstream,
                   wait_for_in_progress_runs, step, freshness, storage>>

RunPlannedToMaterializeAsset ==
    /\ QuerySteps
    /\ \E asset_key \in QueryAssets : \E run_id \in QueryRuns :
          queryer' = Called("run_planned_to_materialize_asset",
                            asset_key, run_id, None,
                            run_planned_to_materialize_asset(
                                queryer.q, store, asset_key, run_id))
    /\ UNCHANGED <<store, runs, cursor, tick, wait_for_all_upstream,
                   wait_for_in_progress_runs, step, freshness, storage>>

IsRunInProgress ==
    /\ QuerySteps
    /\ \E run_id \in QueryRuns :
          queryer' = Called("is_run_in_progress", "None", run_id, None,
                            is_run_in_progress(queryer.q, runs, run_id))
    /\ UNCHANGED <<store, runs, cursor, tick, wait_for_all_upstream,
                   wait_for_in_progress_runs, step, freshness, storage>>

QueryerNext ==
    \/ QuerySteps /\ LaunchRun
    \/ QuerySteps /\ QueryerMaterialize
    \/ FinishRun
    \/ NewQueryer
    \/ GetLatestMaterializationRecord
    \/ GetLatestPlannedMaterializationRecord
    \/ RunPlannedToMaterializeAsset
    \/ IsRunInProgress

SpecQueryer == QueryerInit /\ [][QueryerNext]_vars

----------------------------------------------------------------------------
(* InMemoryEventLogStorage (storage/event_log/in_memory.py) and its        *)
(* watchers.  storage holds _storage_id and _handlers, the run ids of the  *)
(* events stored, and of the store_event in progress the handlers still to *)
(* be called (pending).  What the callbacks have been called with          *)
(* (delivered), the handlers that were registered for the run of each      *)
(* event when it was stored (registered), how the last store_event ended   *)
(* (result) and whether an exception of a callback left store_event        *)
(* (propagated) are recorded for the properties.  store_event is called    *)
(* from one thread and not from a callback; callbacks may call watch and   *)
(* end_watch, so these may happen between two calls of handlers.           *)

\* list(S): the elements of a set in any order
ListsOf(S) ==
    {l \in [1..Cardinality(S) -> S] : \A x \in S : \E i \in DOMAIN l : l[i] = x}

\* watch(run_id, cursor, callback)
watch(s, run_id, callback) ==
    [s EXCEPT !.handlers[run_id] = @ \cup {callback}]

\* end_watch(run_id, handler)
end_watch(s, run_id, handler) ==
    IF handler \in s.handlers[run_id]
    THEN [s EXCEPT !.handlers[run_id] = @ \ {handler}]
    ELSE s

\* store_event up to "handlers = list(self._handlers[event.run_id])", the
\* event stored by super().store_event
store_event_stored(s, run_id, handlers) ==
    [s EXCEPT !.events = Append(@, run_id),
              !.storage_id = @ + 1,
              !.registered = Append(@, s.handlers[run_id]),
              !.pending = handlers,
              !.result = "stored"]

\* super().store_event raises: the event is not stored and the exception
\* leaves store_event
store_event_raises(s) == [s EXCEPT !.result = "raised"]

\* what the next handler is called with
Delivery(s, raised) ==
    [callback |-> Head(s.pending), event |-> Len(s.events),
     run_id |-> s.events[Len(s.events)], cursor |-> s.storage_id,
     raised |-> raised]

\* variant: the exception of a callback leaves store_event
handler_call_Propagates(s, raised) ==
    [s EXCEPT !.delivered = Append(@, Delivery(s, raised)),
              !.pending = IF raised THEN <<>> ELSE Tail(@),
              !.result = IF raised THEN "raised" ELSE @,
              !.propagated = @ \/ raised]

\* one turn of "for handler in handlers": the handler is called with the
\* event and the cursor of self._storage_id; its exception is logged
handler_call(s, raised) ==
    [s EXCEPT !.delivered = Append(@, Delivery(s, raised)),
              !.pending = Tail(@)]

StorageInit ==
    /\ store = <<>>
    /\ runs = <<>>
    /\ cursor = <<>>
    /\ tick = NoTick
    /\ wait_for_all_upstream = FALSE
    /\ wait_for_in_progress_runs = TRUE
    /\ step = [pos |-> 0, launched |-> {}]
    /\ freshness = NoFreshness
    /\ queryer = NoQueryer
    /\ storage = NoStorage

Watch ==
    /\ \E run_id \in StorageRuns : \E callback \in Callbacks :
          storage' = watch(storage, run_id, callback)
    /\ UNCHANGED <<store, runs, cursor, tick, wait_for_all_upstream,
                   wait_for_in_progress_runs, step, freshness, queryer>>

EndWatch ==
    /\ \E run_id \in StorageRuns : \E handler \in Callbacks :
          storage' = end_watch(storage, run_id, handler)
    /\ UNCHANGED <<store, runs, cursor, tick, wait_for_all_upstream,
                   wait_for_in_progress_runs, step, freshness, queryer>>

StoreEvent ==
    /\ storage.pending = <<>>
    /\ Len(storage.events) < MaxStoredEvents
    /\ \E run_id \in StorageRuns :
          \E handlers \in ListsOf(storage.handlers[run_id]) :
              storage' = store_event_stored(storage, run_id, handlers)
    /\ UNCHANGED <<store, runs, cursor, tick, wait_for_all_upstream,
                   wait_for_in_progress_runs, step, freshness, queryer>>

StoreEventRaises ==
    /\ storage.pending = <<>>
    /\ storage' = store_event_raises(storage)
    /\ UNCHANGED <<store, runs, cursor, tick, wait_for_all_upstream,
                   wait_for_in_progress_runs, step, freshness, queryer>>

HandlerCall ==
    /\ storage.pending # <<>>
    /\ \E raised \in BOOLEAN : storage' = handler_call(storage, raised)
    /\ UNCHANGED <<store, runs, cursor, tick, wait_for_all_upstream,
                   wait_for_in_progress_runs, step, freshness, queryer>>

StorageNext ==
    Watch \/ EndWatch \/ StoreEvent \/ StoreEventRaises \/ HandlerCall

SpecStorage == StorageInit /\ [][StorageNext]_vars

----------------------------------------------------------------------------
(* The walk-through of the docstring of build_asset_reconciliation_sensor: *)
(* the parents are materialized by runs of their own, one run at a time,   *)
(* the sensor is evaluated when the runs are complete, and the run it      *)
(* requests is executed before the parents are materialized again.         *)

RunsStep(plans) == [kind |-> "runs", plans |-> plans, optional |-> FALSE]
RequestStep == [kind |-> "request", plans |-> {}, optional |-> FALSE]
TickStep(optional) == [kind |-> "tick", plans |-> {}, optional |-> optional]

Script ==
    << RunsStep({{"a"}, {"b"}, {"c"}}),    \* 1: a, b and c are materialized
       TickStep(FALSE),                    \* 2
       RequestStep,                        \* 3: the requested run
       TickStep(TRUE),                     \* 4: nothing new (may be skipped)
       RunsStep({{"a"}, {"b"}}),           \* 5: just a and b
       TickStep(FALSE),                    \* 6
       RequestStep,                        \* 7
       RunsStep({{"c"}}),                  \* 8: c
       TickStep(FALSE),                    \* 9
       RequestStep,                        \* 10
       RunsStep({{"b"}}),                  \* 11: only b
       TickStep(FALSE) >>                  \* 12

PlannedBy(st, run_id) == GetRecordsForRun(st, run_id, PLANNED)

MaterializedBy(st, run_id) == GetRecordsForRun(st, run_id, MATERIALIZATION)

InProgress(rs, run_id) == rs[run_id] \in IN_PROGRESS_RUN_STATUSES

Quiescent(rs) == \A r \in DOMAIN rs : ~InProgress(rs, r)

\* the asset keys of the RunRequest of the last evaluation
Requested ==
    IF tick.run_requests = <<>> THEN {}
    ELSE tick.run_requests[1].asset_selection

\* the planned-materialization sets of the runs of step pos
StepPlans(pos) ==
    IF Script[pos].kind = "request"
    THEN (IF Requested = {} THEN {} ELSE {Requested})
    ELSE Script[pos].plans

StepComplete ==
    \/ step.pos = 0
    \/ /\ step.pos > 0
       /\ Quiescent(runs)
       /\ Script[step.pos].kind # "tick" => step.launched = StepPlans(step.pos)

\* the steps that can follow the current one
NextPositions ==
    IF ~StepComplete THEN {}
    ELSE {pos \in {step.pos + 1, step.pos + 2} :
             /\ pos <= Len(Script)
             /\ pos = step.pos + 2 => Script[step.pos + 1].optional}

ScenarioLaunch ==
    /\ Quiescent(runs)
    /\ \/ /\ step.pos > 0
          /\ \E S \in StepPlans(step.pos) \ step.launched :
                /\ launch_run(S)
                /\ step' = [step EXCEPT !.launched = @ \cup {S}]
       \/ \E pos \in NextPositions :
             /\ Script[pos].kind # "tick"
             /\ \E S \in StepPlans(pos) :
                   /\ launch_run(S)
                   /\ step' = [pos |-> pos, launched |-> {S}]

\* a run materializes the assets it planned, parents first
ScenarioMaterialize ==
    /\ \E r \in DOMAIN runs :
        \E k \in PlannedBy(store, r) \ MaterializedBy(store, r) :
            /\ (AssetDeps[k] \cap PlannedBy(store, r)) \subseteq MaterializedBy(store, r)
            /\ store_event(r, k)
    /\ UNCHANGED step

ScenarioFinish ==
    /\ \E r \in DOMAIN runs :
            /\ PlannedBy(store, r) \subseteq MaterializedBy(store, r)
            /\ finish_run(r)
    /\ UNCHANGED step

ScenarioTick ==
    /\ \E pos \in NextPositions :
            /\ Script[pos].kind = "tick"
            /\ step' = [pos |-> pos, launched |-> {}]
    /\ \E rev \in BOOLEAN : sensor_fn(rev)

ScenarioInit == Init

ScenarioNext ==
    ScenarioLaunch \/ ScenarioMaterialize \/ ScenarioFinish \/ ScenarioTick

SpecDocstring == ScenarioInit /\ [][ScenarioNext]_vars

----------------------------------------------------------------------------
(* What the claims speak of *)

\* the event log as the last evaluation saw it
TickStore == SubSeq(store, 1, tick.store_len)

\* the cursor entry of asset k in a serialized cursor, None when absent
CursorOf(text, k) == DictGet(deserialize_cursor_dict(text), AssetKeyStr(k))

\* the latest materialization of p after asset k's cursor, if any
LatestAfter(st, cursor_dict, k, p) ==
    GetEventRecords(st, MATERIALIZATION, p, DictGet(cursor_dict, AssetKeyStr(k)))

\* p has a materialization after k's cursor whose run did not plan k
Fresh(st, cursor_dict, k, p) ==
    LET records == LatestAfter(st, cursor_dict, k, p)
    IN  records # <<>> /\ k \notin PlannedBy(st, records[1].run_id)

\* p has a planned, not yet completed materialization in an in-progress run
InFlight(st, rs, p) ==
    \E r \in DOMAIN rs :
        /\ InProgress(rs, r)
        /\ p \in PlannedBy(st, r)
        /\ p \notin MaterializedBy(st, r)

\* nothing was appended and no run changed status since the last evaluation
NothingNewSinceTick ==
    tick.evaluated /\ tick.store_len = Len(store) /\ tick.runs = runs

----------------------------------------------------------------------------
(* C1: Monotone cursor.  In every step (appends, run status changes and    *)
(* evaluations, under either setting of the switches) the cursor entry of  *)
(* every asset that has one is still present afterwards and is not lower.  *)
C1_MonotoneCursor ==
    [][\A k \in Selection :
          CursorOf(cursor, k) # None =>
              /\ CursorOf(cursor', k) # None
              /\ CursorOf(cursor', k) >= CursorOf(cursor, k)]_vars

\* an evaluation raised an entry that was already present, and kept another
C1_Witness ==
    /\ tick.evaluated
    /\ \E k \in Selection :
          /\ DictGet(tick.cursor_in, AssetKeyStr(k)) # None
          /\ CursorOf(cursor, k) > DictGet(tick.cursor_in, AssetKeyStr(k))
    /\ \E k \in Selection :
          /\ DictGet(tick.cursor_in, AssetKeyStr(k)) # None
          /\ AssetKeyStr(k) \notin DOMAIN tick.newly_consumed

(* C2: Idempotence under no new facts.  When the sensor is evaluated again *)
(* with the cursor the previous evaluation returned, and nothing was       *)
(* appended and no run changed status in between, it requests nothing and  *)
(* returns the cursor unchanged.                                           *)
C2_Idempotence ==
    [][(NothingNewSinceTick /\ store' = store /\ runs' = runs) =>
          (tick'.run_requests = <<>> /\ cursor' = cursor)]_vars

(* C3: In-progress gating guarantee.  With wait_for_in_progress_runs, no   *)
(* evaluation requests an asset while one of its parents has a planned,    *)
(* not yet completed materialization in a run that is in progress.         *)
C3_InProgressGating ==
    (tick.evaluated /\ wait_for_in_progress_runs) =>
        \A k \in Requested : \A p \in upstream[k] :
            ~InFlight(TickStore, tick.runs, p)

(* C4: Co-materialization exclusion.  When the latest materialization of  *)
(* parent p after asset k's cursor comes from a run that also planned k,   *)
(* the event does not make p count as updated for k, and after the         *)
(* evaluation k's cursor is at least the event's storage id, whether or    *)
(* not k was requested.                                                    *)
C4_CoMaterialization ==
    tick.evaluated =>
        \A k \in Selection : \A p \in upstream[k] :
            LET records == LatestAfter(TickStore, tick.cursor_in, k, p)
            IN  (records # <<>> /\ k \in PlannedBy(TickStore, records[1].run_id)) =>
                    /\ p \notin Requested => ~tick.parent_update_records[k][p][1]
                    /\ CursorOf(cursor, k) >= records[1].storage_id

----------------------------------------------------------------------------
(* C5: In-progress gating and release, for asset d and its parent a.       *)

\* the run of the most recent planned-materialization record of p, 0 if none
LatestPlannedRun(st, p) ==
    LET records == GetEventRecords(st, PLANNED, p, None)
    IN  IF records = <<>> THEN 0 ELSE records[1].run_id

\* p's most recent planned materialization belongs to an in-progress run
PlannedInProgress(st, rs, p) ==
    LatestPlannedRun(st, p) # 0 /\ InProgress(rs, LatestPlannedRun(st, p))

\* while a's planned materialization belongs to an in-progress run, an
\* evaluation leaves d out
C5_Gated ==
    (tick.evaluated /\ wait_for_in_progress_runs
        /\ PlannedInProgress(TickStore, tick.runs, "a")) => "d" \notin Requested

\* the last evaluation saw a's planned materialization in the in-progress
\* run r; r has now completed, has materialized a and did not plan d
Released(r) ==
    /\ tick.evaluated /\ wait_for_in_progress_runs
    /\ r \in DOMAIN tick.runs /\ InProgress(tick.runs, r)
    /\ LatestPlannedRun(TickStore, "a") = r
    /\ ~InProgress(runs, r)
    /\ "a" \in MaterializedBy(store, r)
    /\ "d" \notin PlannedBy(store, r)

\* an evaluation step (it records the run statuses, which have changed)
NextTickAfterRelease == (\E r \in DOMAIN runs : Released(r)) /\ tick' # tick

\* the decision rule lets d through on a's account
DecisionAllowsD ==
    LET cursor_dict == deserialize_cursor_dict(cursor)
    IN  /\ \A p \in upstream["d"] : ~PlannedInProgress(store, runs, p)
        /\ Fresh(store, cursor_dict, "d", "a")
        /\ wait_for_all_upstream =>
               \A p \in upstream["d"] : Fresh(store, cursor_dict, "d", p)

----------------------------------------------------------------------------
(* C10: A never-materialized parent blocks in all-upstream mode.  With     *)
(* wait_for_all_upstream, an asset is requested only if each of its        *)
(* parents is requested in the same evaluation or has a materialization    *)
(* record; the evaluation itself completes.                                *)
C10_NeverMaterializedParentBlocks ==
    (tick.evaluated /\ wait_for_all_upstream) =>
        \A y \in Requested : \A p \in upstream[y] :
            \/ p \in Requested
            \/ GetEventRecords(TickStore, MATERIALIZATION, p, None) # <<>>

\* y is held back by a parent without any record although another parent
\* of y is updated
C10_Witness ==
    /\ tick.evaluated /\ wait_for_all_upstream
    /\ \E y \in Selection \ Requested : \E p, x \in upstream[y] :
          /\ GetEventRecords(TickStore, MATERIALIZATION, p, None) = <<>>
          /\ p \notin Requested
          /\ tick.parent_update_records[y][x][1]

----------------------------------------------------------------------------
(* C6 to C9: the walk-through of the docstring (SpecDocstring).            *)

\* what the last evaluation started from
FreshAtTick(k, p) == Fresh(TickStore, tick.cursor_in, k, p)

\* the pairs <<asset, parent>> of the upstream mapping
UpstreamPairs == {<<k, p>> \in Selection \X Assets : p \in upstream[k]}

\* exactly the pairs of F had a parent materialization that was new to the
\* asset and came from a run that did not plan the asset; no run in progress
OnlyFresh(F) ==
    /\ tick.evaluated
    /\ Quiescent(tick.runs)
    /\ \A pair \in UpstreamPairs : FreshAtTick(pair[1], pair[2]) <=> pair \in F

\* the evaluation returned exactly one RunRequest, for the assets of S
RequestedExactly(S) == tick.run_requests = <<RunRequest(S)>>

(* C6: Propagation in all-upstream mode.  With wait_for_all_upstream and   *)
(* an empty cursor, when a, b and c each have a materialization from a     *)
(* completed run that planned none of d, e, f, the evaluation returns      *)
(* exactly one RunRequest, for exactly {d, e, f}.                          *)
C6_Propagation ==
    (/\ wait_for_all_upstream
     /\ tick.cursor_in = EmptyDict
     /\ OnlyFresh({<<"d", "a">>, <<"d", "b">>, <<"e", "b">>, <<"e", "c">>}))
        => RequestedExactly({"d", "e", "f"})

C6_Witness ==
    /\ wait_for_all_upstream
    /\ tick.cursor_in = EmptyDict
    /\ OnlyFresh({<<"d", "a">>, <<"d", "b">>, <<"e", "b">>, <<"e", "c">>})
    /\ Requested = {"d", "e", "f"}
    /\ Len(tick.run_requests) = 1

(* C7: Partial readiness in all-upstream mode.  With wait_for_all_upstream,*)
(* when only a and b have new materializations after the children's        *)
(* cursors and c has none, the evaluation returns one RunRequest for       *)
(* exactly {d}: e and f are not requested.                                 *)
C7_PartialReadiness ==
    (/\ wait_for_all_upstream
     /\ OnlyFresh({<<"d", "a">>, <<"d", "b">>, <<"e", "b">>}))
        => RequestedExactly({"d"})

C7_Witness ==
    /\ wait_for_all_upstream
    /\ OnlyFresh({<<"d", "a">>, <<"d", "b">>, <<"e", "b">>})
    /\ Requested = {"d"}
    /\ tick.cursor_in # EmptyDict

(* C8: Any-upstream mode.  Without wait_for_all_upstream, when only b has  *)
(* a new materialization after the children's cursors, the evaluation      *)
(* requests d and e and therefore f: one RunRequest for {d, e, f}.         *)
C8_AnyUpstream ==
    (/\ ~wait_for_all_upstream
     /\ OnlyFresh({<<"d", "b">>, <<"e", "b">>}))
        => RequestedExactly({"d", "e", "f"})

C8_Witness ==
    /\ ~wait_for_all_upstream
    /\ OnlyFresh({<<"d", "b">>, <<"e", "b">>})
    /\ Requested = {"d", "e", "f"}
    /\ tick.parent_update_records["f"]["d"] = <<TRUE, None>>
    /\ tick.parent_update_records["f"]["e"] = <<TRUE, None>>

(* C9: Multi-tick catch-up in all-upstream mode.  After a, b, c were       *)
(* materialized and an evaluation requested {d, e, f} (steps 1, 2), one    *)
(* run materialized d, e, f (3), a and b were materialized again and an    *)
(* evaluation requested {d} (5, 6), a run materialized d alone (7) and c   *)
(* was materialized (8), the next evaluation (9) requests exactly {e, f}:  *)
(* e because b and c are both updated for e, f because d was updated by    *)
(* the earlier run and e is in the will-materialize set.                   *)
C9_CatchUp ==
    (wait_for_all_upstream /\ step.pos = 9) =>
        /\ RequestedExactly({"e", "f"})
        /\ tick.parent_update_records["e"]["b"][1]
        /\ tick.parent_update_records["e"]["c"][1]
        /\ tick.parent_update_records["f"]["d"][1]
        /\ Truthy(tick.parent_update_records["f"]["d"][2])
        /\ tick.parent_update_records["f"]["e"] = <<TRUE, None>>

\* the evaluation of step 9 took place after the runs of the steps before
C9_Witness ==
    /\ wait_for_all_upstream /\ step.pos = 9 /\ tick.evaluated
    /\ Requested = {"e", "f"}
    /\ \E r1, r2 \in DOMAIN tick.runs :
          /\ PlannedBy(TickStore, r1) = {"d", "e", "f"}
          /\ MaterializedBy(TickStore, r1) = {"d", "e", "f"}
          /\ PlannedBy(TickStore, r2) = {"d"}
          /\ MaterializedBy(TickStore, r2) = {"d"}
          /\ r1 < r2
    /\ Cardinality({i \in DOMAIN TickStore :
                       /\ TickStore[i].event_type = MATERIALIZATION
                       /\ TickStore[i].asset_key \in {"a", "b"}}) = 4

----------------------------------------------------------------------------
(* C11: Unmonitored parents are absent from the upstream mapping.  The     *)
(* parents an evaluation looks at, for every monitored asset, are          *)
(* themselves in the monitored selection.                                  *)
C11_UnmonitoredParentsAbsent ==
    tick.evaluated =>
        \A k \in DOMAIN tick.parent_update_records :
            DOMAIN tick.parent_update_records[k] \subseteq Selection

----------------------------------------------------------------------------
(* C12: Tick output shape.  Every evaluation returns at most one           *)
(* RunRequest; when the final will-materialize set is not empty the        *)
(* RunRequest carries exactly its assets, the run tags and no run key;     *)
(* when it is empty there is no RunRequest.                                *)
C12_TickOutputShape ==
    tick.evaluated =>
        /\ Len(tick.run_requests) <= 1
        /\ IF tick.should_materialize # {}
           THEN tick.run_requests =
                    <<[run_key |-> "None",
                       asset_selection |-> tick.should_materialize,
                       tags |-> "run_tags"]>>
           ELSE tick.run_requests = <<>>

\* one RunRequest for several assets
C12_Witness ==
    /\ tick.evaluated
    /\ Cardinality(tick.should_materialize) >= 2
    /\ Len(tick.run_requests) = 1
    /\ tick.run_requests[1].asset_selection = tick.should_materialize

----------------------------------------------------------------------------
(* C15: Tick determinism.  From the same cursor, event log, run statuses   *)
(* and switches, the evaluation produces the same will-materialize set,    *)
(* the same RunRequest and the same cursor whichever way the parents of    *)
(* an asset and the assets of a layer are iterated.                        *)

\* the evaluation of the current state with the iteration order rev
ReconcileNow(rev) ==
    reconcile(rev, store, runs, 0, wait_for_in_progress_runs,
              wait_for_all_upstream, latest_consumed_storage_ids)

SameDecision(r1, r2) ==
    /\ r1.should_materialize = r2.should_materialize
    /\ r1.run_requests = r2.run_requests
    /\ update_cursor(latest_consumed_storage_ids, r1.newly_consumed)
           = update_cursor(latest_consumed_storage_ids, r2.newly_consumed)

DifferentWalk(r1, r2) ==
    /\ r1.walk # r2.walk
    /\ r1.should_materialize # {}
    /\ \E k \in Selection :
          /\ \A p \in upstream[k] : r1.parent_update_records[k][p] = <<FALSE, None>>
          /\ \E p \in upstream[k] : Fresh(store, latest_consumed_storage_ids, k, p)

C15_TickDeterminism == SameDecision(ReconcileNow(FALSE), ReconcileNow(TRUE))

\* the two orders visit the assets differently, something is requested and
\* the early return hid a new materialization of a parent
C15_Witness ==
    /\ wait_for_in_progress_runs
    /\ DifferentWalk(ReconcileNow(FALSE), ReconcileNow(TRUE))

----------------------------------------------------------------------------
(* C18: Decision rule.  An asset is in the will-materialize set of an      *)
(* evaluation iff any (without wait_for_all_upstream) or all (with it) of  *)
(* the updated flags of its parents are true, also when the early return   *)
(* marked all its parents not updated; an asset without parents is         *)
(* treated by the same rule.                                               *)

\* the loop body for an asset without parents
NoParentsDecision(wait_all) ==
    reconcile_asset([q |-> CachingInstanceQueryerInit, should_materialize |-> {},
                     walk |-> <<>>, newly_consumed |-> EmptyDict,
                     parent_update_records |-> EmptyDict],
                    "a", None,
                    [q |-> CachingInstanceQueryerInit, records |-> EmptyDict],
                    wait_all)

C18_DecisionRule ==
    /\ tick.evaluated =>
          \A k \in Selection :
              k \in tick.should_materialize <=>
                  IF wait_for_all_upstream
                  THEN \A p \in upstream[k] : tick.parent_update_records[k][p][1]
                  ELSE \E p \in upstream[k] : tick.parent_update_records[k][p][1]
    /\ NoParentsDecision(TRUE).should_materialize = {"a"}
    /\ NoParentsDecision(FALSE).should_materialize = {}

\* the early return marked the parents of k not updated although one of
\* them has a new materialization, and k is left out
C18_Witness ==
    /\ tick.evaluated /\ wait_for_in_progress_runs
    /\ \E k \in Selection \ tick.should_materialize :
          /\ \A p \in upstream[k] :
                tick.parent_update_records[k][p] = <<FALSE, None>>
          /\ \E p \in upstream[k] : Fresh(TickStore, tick.cursor_in, k, p)
    /\ tick.should_materialize # {}

----------------------------------------------------------------------------
(* C19: Cursor advance rule.                                               *)

\* the cursor values recorded for the parents of k by the last evaluation
ParentCandidates(k) ==
    {tick.parent_update_records[k][p][2] : p \in upstream[k]} \ {None}

\* the previous cursor value of k, if present
PreviousCursor(k) ==
    IF AssetKeyStr(k) \in DOMAIN tick.cursor_in
    THEN {tick.cursor_in[AssetKeyStr(k)]} ELSE {}

NewEntry(k, S) ==
    /\ AssetKeyStr(k) \in DOMAIN tick.newly_consumed
    /\ tick.newly_consumed[AssetKeyStr(k)] = Max(S)

(* C19 as stated: the new cursor value of a selected asset is the maximum  *)
(* of the candidates of its parents and its previous cursor value if       *)
(* present; when no parent produced a candidate no new entry is produced.  *)
C19_CursorAdvance ==
    tick.evaluated =>
        \A k \in tick.should_materialize :
            /\ ParentCandidates(k) \cup PreviousCursor(k) # {} =>
                   NewEntry(k, ParentCandidates(k) \cup PreviousCursor(k))
            /\ ParentCandidates(k) = {} =>
                   AssetKeyStr(k) \notin DOMAIN tick.newly_consumed

(* C19 amended: as above, but no new entry is produced when no parent      *)
(* produced a candidate and the asset has no previous cursor value; with   *)
(* a previous value and no candidate the new entry repeats that value.     *)
C19_CursorAdvanceAmended ==
    tick.evaluated =>
        \A k \in tick.should_materialize :
            /\ ParentCandidates(k) \cup PreviousCursor(k) # {} =>
                   NewEntry(k, ParentCandidates(k) \cup PreviousCursor(k))
            /\ ParentCandidates(k) \cup PreviousCursor(k) = {} =>
                   AssetKeyStr(k) \notin DOMAIN tick.newly_consumed

\* a selected asset whose parents are all in the will-materialize set and
\* which has a previous cursor value: the new entry repeats it
C19_Witness ==
    /\ tick.evaluated
    /\ \E k \in tick.should_materialize :
          /\ ParentCandidates(k) = {}
          /\ PreviousCursor(k) # {}
          /\ NewEntry(k, PreviousCursor(k))
    /\ \E k \in tick.should_materialize :
          /\ ParentCandidates(k) # {}
          /\ NewEntry(k, ParentCandidates(k))

----------------------------------------------------------------------------
(* C20: Topological processing.  An evaluation visits every monitored      *)
(* asset exactly once and after its monitored parents, whose membership    *)
(* in the will-materialize set is then final; the will-materialize set     *)
(* only grows during the walk.                                             *)

\* should_materialize before the i-th visit of the walk
ShouldMaterializeBefore(i) ==
    IF i = 1 THEN {} ELSE tick.walk[i - 1].should_materialize

C20_TopologicalProcessing ==
    tick.evaluated =>
        /\ Len(tick.walk) = Cardinality(Selection)
        /\ {tick.walk[i].asset : i \in DOMAIN tick.walk} = Selection
        /\ \A i \in DOMAIN tick.walk :
              /\ ShouldMaterializeBefore(i) \subseteq tick.walk[i].should_materialize
              /\ \A p \in upstream[tick.walk[i].asset] \cap Selection :
                    /\ \E j \in 1..(i - 1) : tick.walk[j].asset = p
                    /\ p \in ShouldMaterializeBefore(i) <=>
                           p \in tick.should_materialize

\* f is visited last and selected because d and e were selected before
C20_Witness ==
    /\ tick.evaluated
    /\ tick.walk[Len(tick.walk)].asset = "f"
    /\ tick.parent_update_records["f"]["d"] = <<TRUE, None>>
    /\ tick.parent_update_records["f"]["e"] = <<FALSE, None>>
    /\ "f" \in tick.should_materialize
    /\ ShouldMaterializeBefore(2) # ShouldMaterializeBefore(3)

----------------------------------------------------------------------------
(* C16 and C17: the freshness policies (SpecFreshness).                    *)

\* the upstream times of the evaluation
UpstreamTimeValues ==
    {freshness.upstream_materialization_times[i] :
        i \in DOMAIN freshness.upstream_materialization_times}

Evaluated(policy) == freshness.evaluated /\ freshness.policy = policy

(* C16: Fixed-window freshness.  minutes_late returns None if any upstream *)
(* has no materialization time, wherever it is in the mapping, and         *)
(* otherwise the maximum over the upstreams of (floor - time) when         *)
(* time < floor and 0 otherwise, with floor = evaluation time - window;    *)
(* the result is never negative and is 0 for an empty mapping.             *)
C16_FixedWindowFreshness ==
    Evaluated("MinimumFreshnessPolicy") =>
        LET floor == freshness.evaluation_time - freshness.minimum_freshness_minutes
        IN  /\ None \in UpstreamTimeValues <=> freshness.minutes_late = None
            /\ None \notin UpstreamTimeValues =>
                  /\ freshness.minutes_late =
                        Max({0} \cup {floor - t : t \in {u \in UpstreamTimeValues : u < floor}})
                  /\ freshness.minutes_late >= 0
            /\ UpstreamTimeValues = {} => freshness.minutes_late = 0

\* an upstream without time after a late upstream: None
C16_Witness ==
    /\ Evaluated("MinimumFreshnessPolicy")
    /\ Len(freshness.upstream_materialization_times) = 2
    /\ freshness.upstream_materialization_times[1] # None
    /\ freshness.upstream_materialization_times[1] <
           freshness.evaluation_time - freshness.minimum_freshness_minutes
    /\ freshness.upstream_materialization_times[2] = None
    /\ freshness.minutes_late = None

(* C17: Cron-anchored freshness.  With T the most recent schedule tick     *)
(* such that T + window <= evaluation time, minutes_late returns None if   *)
(* any upstream has no materialization time, and otherwise                 *)
(* evaluation time - (T + window) if some upstream time is before T and 0  *)
(* if none is; the result is never negative.                               *)
C17_CronAnchoredFreshness ==
    Evaluated("CronMinimumFreshnessPolicy") =>
        LET window == freshness.minimum_freshness_minutes
            T == ((freshness.evaluation_time - window) \div freshness.period)
                     * freshness.period
        IN  /\ None \in UpstreamTimeValues <=> freshness.minutes_late = None
            /\ None \notin UpstreamTimeValues =>
                  /\ freshness.minutes_late =
                        IF \E u \in UpstreamTimeValues : u < T
                        THEN freshness.evaluation_time - (T + window) ELSE 0
                  /\ freshness.minutes_late >= 0

\* the ticks of the schedule that the evaluation can reach
ScheduleTicks ==
    {t \in (0 - freshness.period - MaxWindow)..freshness.evaluation_time :
        t % freshness.period = 0}

(* C17 amended: as above, with T the most recent schedule tick strictly    *)
(* before the evaluation time such that T + window <= evaluation time.     *)
C17_CronAnchoredFreshnessAmended ==
    Evaluated("CronMinimumFreshnessPolicy") =>
        LET window == freshness.minimum_freshness_minutes
            T == Max({t \in ScheduleTicks :
                         /\ t < freshness.evaluation_time
                         /\ t + window <= freshness.evaluation_time})
        IN  /\ None \in UpstreamTimeValues <=> freshness.minutes_late = None
            /\ None \notin UpstreamTimeValues =>
                  /\ freshness.minutes_late =
                        IF \E u \in UpstreamTimeValues : u < T
                        THEN freshness.evaluation_time - (T + window) ELSE 0
                  /\ freshness.minutes_late >= 0

\* the evaluation time is a tick of the schedule, the window is 0 and an
\* upstream is older than the tick before: late by one period
C17_Witness ==
    /\ Evaluated("CronMinimumFreshnessPolicy")
    /\ freshness.minimum_freshness_minutes = 0
    /\ freshness.evaluation_time % freshness.period = 0
    /\ None \notin UpstreamTimeValues
    /\ \E u \in UpstreamTimeValues : u < freshness.evaluation_time - freshness.period
    /\ freshness.minutes_late = freshness.period

----------------------------------------------------------------------------
(* C13 and C14: errors during an evaluation (SpecFaults).                  *)

(* C13: Malformed cursor is fatal.  When the persisted cursor does not     *)
(* decode into a map from asset-key string to integer, the evaluation      *)
(* raises before any asset is visited, returns no RunRequest and leaves    *)
(* the persisted cursor as it was.                                         *)
C13_MalformedCursorFatal ==
    [][(cursor # <<>> /\ ~DecodesToIntMap(cursor) /\ tick' # tick) =>
          /\ tick'.raised # "None"
          /\ tick'.walk = <<>>
          /\ tick'.run_requests = <<>>
          /\ cursor' = cursor]_vars

(* C14: Fact-store failure is all-or-nothing.  When a query of the         *)
(* instance fails during an evaluation, at whichever asset of the walk,    *)
(* the evaluation raises at that query (no further query is issued),       *)
(* returns no RunRequest and leaves the persisted cursor as it was.        *)
C14_FactStoreFailure ==
    [][(tick' # tick /\ tick'.fail_at # 0 /\ tick'.queries >= tick'.fail_at) =>
          /\ tick'.raised = "InstanceError"
          /\ tick'.queries = tick'.fail_at
          /\ tick'.run_requests = <<>>
          /\ cursor' = cursor]_vars

\* the instance failed at the third asset of the walk, after an asset had
\* been selected and given a cursor value that the cursor does not hold
C14_Witness ==
    /\ tick.evaluated /\ tick.raised = "InstanceError"
    /\ Len(tick.walk) = 2
    /\ tick.should_materialize # {}
    /\ \E k \in tick.should_materialize :
          /\ AssetKeyStr(k) \in DOMAIN tick.newly_consumed
          /\ \A i \in DOMAIN cursor : cursor[i][1] # AssetKeyStr(k)

----------------------------------------------------------------------------
(* C21 to C25 and C29: the caches of CachingInstanceQueryer (SpecQueryer). *)

INIT == "CachingInstanceQueryer"
GLMR == "get_latest_materialization_record"
GLPMR == "get_latest_planned_materialization_record"
RPTMA == "run_planned_to_materialize_asset"
IRIP == "is_run_in_progress"

Calls == queryer.calls

CallsOf(method) == {i \in DOMAIN Calls : Calls[i].method = method}

\* calls i and j are calls of the same queryer: none was built in between
SameQueryer(i, j) ==
    \A k \in DOMAIN Calls :
        (Min2(i, j) < k /\ k <= Max2(i, j)) => Calls[k].method # INIT

\* the calls of the method made before call i by the queryer of call i
Before(i, method) == {j \in CallsOf(method) : j < i /\ SameQueryer(j, i)}

\* the event log at the moment of call i
StoreAt(i) == SubSeq(store, 1, Calls[i].store_len)

\* the materializations of the asset after the cursor in the event log st
MaterializationIds(st, asset_key, after_cursor) ==
    {n \in DOMAIN st : /\ st[n].event_type = MATERIALIZATION
                       /\ st[n].asset_key = asset_key
                       /\ (after_cursor # None => n > after_cursor)}

\* what the event log st holds for the asset after the cursor
LatestIn(st, asset_key, after_cursor) ==
    LET ids == MaterializationIds(st, asset_key, after_cursor)
    IN  IF ids = {} THEN NoRecord ELSE EventLogRecord(st, Max(ids))

\* the event log was the same at call i as at the earlier calls of its
\* queryer
StoreUnchangedUntil(i) ==
    \A j \in DOMAIN Calls :
        (j < i /\ SameQueryer(j, i) /\ Calls[j].method # INIT) =>
            Calls[j].store_len = Calls[i].store_len

(* C21: Cached latestMaterialization equals the store.  While the event    *)
(* log does not change during the calls of one queryer, every call of      *)
(* get_latest_materialization_record, for any asset and any after_cursor   *)
(* (None included), returns what the event log holds: the record of the    *)
(* asset with the highest storage id above after_cursor, or None.          *)
C21_CachedEqualsStore ==
    \A i \in CallsOf(GLMR) :
        StoreUnchangedUntil(i) =>
            Calls[i].ret = LatestIn(StoreAt(i), Calls[i].asset_key,
                                    Calls[i].after_cursor)

\* a record is answered from the cache to a call with an after_cursor,
\* the event log unchanged
C21_Witness ==
    \E i \in CallsOf(GLMR) :
        /\ StoreUnchangedUntil(i) /\ ~Calls[i].queried
        /\ Calls[i].after_cursor # None /\ Calls[i].ret # NoRecord

\* the calls before call i that queried the event log for the asset and
\* found a record: from then on the asset is in the positive cache
HitsBefore(i, asset_key) ==
    {j \in Before(i, GLMR) : /\ Calls[j].asset_key = asset_key
                             /\ Calls[j].queried /\ Calls[j].ret # NoRecord}

\* the after_cursors of the queries of the event log, before call i, that
\* found no record of the asset
MissesBefore(i, asset_key) ==
    {Calls[j].after_cursor :
        j \in {k \in Before(i, GLMR) : /\ Calls[k].asset_key = asset_key
                                       /\ Calls[k].queried
                                       /\ Calls[k].ret = NoRecord
                                       /\ Calls[k].after_cursor # None}}

\* call i was answered None by the negative cache
FromNegativeCache(i) ==
    /\ Calls[i].method = GLMR /\ ~Calls[i].queried /\ Calls[i].ret = NoRecord
    /\ HitsBefore(i, Calls[i].asset_key) = {}

(* C22: Negative-cache floor.  After any calls of one queryer the floor    *)
(* kept for an asset is the minimum after_cursor of the queries of the     *)
(* event log that found no record of it, and a call is answered None by    *)
(* the negative cache, without a query, only when its after_cursor is not  *)
(* None and is at least that floor.                                        *)
C22_NegativeCacheFloor ==
    /\ \A asset_key \in QueryAssets :
          LET misses == MissesBefore(Len(Calls) + 1, asset_key)
              floors == queryer.q.no_materializations_after_cursor_cache
          IN  /\ asset_key \in DOMAIN floors <=> misses # {}
              /\ misses # {} => floors[asset_key] = Min(misses)
    /\ \A i \in DOMAIN Calls :
          FromNegativeCache(i) =>
              LET misses == MissesBefore(i, Calls[i].asset_key)
              IN  /\ misses # {}
                  /\ Calls[i].after_cursor # None
                  /\ Calls[i].after_cursor >= Min(misses)

\* two misses lowered the floor, and the negative cache then answered
C22_Witness ==
    \E i \in DOMAIN Calls :
        /\ FromNegativeCache(i)
        /\ Cardinality(MissesBefore(i, Calls[i].asset_key)) >= 2

(* C23: latestPlannedMaterialization is cached per asset, None included.   *)
(* One queryer queries the event log at most once per asset for its        *)
(* planned materialization, and a second call for the asset returns what   *)
(* the first returned, also when that was None and a planned event of the  *)
(* asset was stored in between.                                            *)
C23_PlannedCachedPerAsset ==
    \A j \in CallsOf(GLPMR) : \A i \in Before(j, GLPMR) :
        Calls[i].asset_key = Calls[j].asset_key =>
            /\ ~Calls[j].queried
            /\ Calls[j].ret = Calls[i].ret

\* the first call of the method about the run by the queryer of call i
FirstAbout(i) ==
    Min({i} \cup {j \in Before(i, Calls[i].method) :
                      Calls[j].run_id = Calls[i].run_id})

(* C24: Run-keyed caches.  One queryer asks the instance at most once per  *)
(* run id for the planned assets of the run and at most once per run id    *)
(* for its status; every later call about the run, for any asset, is       *)
(* answered from what the first call found, whatever has happened to the   *)
(* run since.                                                              *)
C24_RunKeyedCaches ==
    /\ \A i \in CallsOf(RPTMA) :
          /\ Calls[i].queried <=> i = FirstAbout(i)
          /\ Calls[i].ret =
                (Calls[i].asset_key \in
                    GetRecordsForRun(StoreAt(FirstAbout(i)), Calls[i].run_id,
                                     PLANNED))
    /\ \A i \in CallsOf(IRIP) :
          /\ Calls[i].queried <=> i = FirstAbout(i)
          /\ Calls[i].ret = Calls[FirstAbout(i)].in_progress

\* a run is still reported in progress after it finished
C24_Witness ==
    \E i \in CallsOf(IRIP) :
        /\ Calls[i].ret /\ ~Calls[i].queried /\ ~Calls[i].in_progress

\* call i is the first call of its queryer with its method, asset and run
FirstOfKey(i) ==
    \A j \in Before(i, Calls[i].method) :
        \/ Calls[j].run_id # Calls[i].run_id
        \/ Calls[j].asset_key # Calls[i].asset_key

(* C25: Caches are scoped to one evaluation.  Every evaluation starts with *)
(* a queryer whose five caches are empty, so that the first call about an  *)
(* asset or a run is answered by the instance as it then is: a             *)
(* materialization stored since the previous evaluation, above the cursor, *)
(* is returned, and a run finished since is not in progress.               *)
C25_CachesScopedToTick ==
    /\ (Calls = <<>> \/ Calls[Len(Calls)].method = INIT) =>
          /\ queryer.q.latest_materialization_record_cache = EmptyDict
          /\ queryer.q.no_materializations_after_cursor_cache = EmptyDict
          /\ queryer.q.latest_planned_materialization_cache = EmptyDict
          /\ queryer.q.run_planned_materializations_cache = EmptyDict
          /\ queryer.q.is_run_in_progress_cache = EmptyDict
    /\ \A i \in CallsOf(GLMR) :
          FirstOfKey(i) =>
              /\ Calls[i].queried
              /\ Calls[i].ret = LatestIn(StoreAt(i), Calls[i].asset_key,
                                         Calls[i].after_cursor)
    /\ \A i \in CallsOf(IRIP) :
          FirstOfKey(i) =>
              /\ Calls[i].queried
              /\ Calls[i].ret = Calls[i].in_progress

\* the queryer of one evaluation found a run in progress, the run
\* finished, and the queryer of the next evaluation finds it finished
C25_Witness ==
    \E j \in CallsOf(IRIP) : \E i \in CallsOf(IRIP) :
        /\ i < j /\ ~SameQueryer(i, j)
        /\ Calls[i].run_id = Calls[j].run_id
        /\ Calls[i].ret /\ ~Calls[j].ret

(* C29: Query answers stay sound under concurrent appends.  While runs     *)
(* store events between the calls of one queryer, every record that        *)
(* get_latest_materialization_record returns is a materialization of the   *)
(* asset in the event log, above after_cursor, and every None was true of  *)
(* the event log at this call or at some earlier query of the queryer.     *)
C29_SoundUnderAppends ==
    \A i \in CallsOf(GLMR) :
        IF Calls[i].ret # NoRecord
        THEN /\ Calls[i].ret.storage_id \in
                    MaterializationIds(store, Calls[i].asset_key,
                                       Calls[i].after_cursor)
             /\ Calls[i].ret = EventLogRecord(store, Calls[i].ret.storage_id)
        ELSE \E j \in DOMAIN Calls :
                /\ j <= i /\ SameQueryer(j, i)
                /\ (Calls[j].queried \/ j = i)
                /\ MaterializationIds(StoreAt(j), Calls[i].asset_key,
                                      Calls[i].after_cursor) = {}

\* a None from a cache when the event log has meanwhile got a record
C29_Witness ==
    \E i \in CallsOf(GLMR) :
        /\ Calls[i].ret = NoRecord /\ ~Calls[i].queried
        /\ MaterializationIds(StoreAt(i), Calls[i].asset_key,
                              Calls[i].after_cursor) # {}

----------------------------------------------------------------------------
(* C26 to C28: the persisted cursor (Spec).  In Spec the cursor is written *)
(* by the evaluations only, so that after an evaluation it is the cursor   *)
(* that evaluation persisted.                                              *)

\* the evaluation that has been made last returned without raising
TickReturned == tick.evaluated /\ tick.raised = "None"

(* C26: Cursor merge.  The cursor persisted by an evaluation has every key *)
(* of the previous cursor and every key computed in the evaluation; a key  *)
(* computed in the evaluation has the new value, every other key the       *)
(* value it had.                                                           *)
C26_CursorMerge ==
    TickReturned =>
        LET persisted == deserialize_cursor_dict(cursor)
        IN  /\ DOMAIN persisted =
                  DOMAIN tick.cursor_in \cup DOMAIN tick.newly_consumed
            /\ \A key \in DOMAIN tick.newly_consumed :
                  persisted[key] = tick.newly_consumed[key]
            /\ \A key \in DOMAIN tick.cursor_in \ DOMAIN tick.newly_consumed :
                  persisted[key] = tick.cursor_in[key]

\* one key is kept from the previous cursor, another is overwritten with a
\* new value
C26_Witness ==
    /\ TickReturned
    /\ DOMAIN tick.cursor_in \ DOMAIN tick.newly_consumed # {}
    /\ \E key \in DOMAIN tick.cursor_in \cap DOMAIN tick.newly_consumed :
          tick.newly_consumed[key] # tick.cursor_in[key]

C28_CursorFromMaterializations ==
    \A k \in Assets :
        LET v == CursorOf(cursor, k)
        IN  v # None =>
                /\ k \in DOMAIN upstream
                /\ v \in DOMAIN store
                /\ store[v].event_type = MATERIALIZATION
                /\ store[v].asset_key \in upstream[k]

\* the cursor of an asset stays at a materialization of a parent although
\* the evaluation saw a later planned event of a parent
C28_Witness ==
    \E k \in DOMAIN upstream :
        /\ TickReturned
        /\ CursorOf(cursor, k) # None
        /\ \E i \in 1..tick.store_len :
              /\ i > CursorOf(cursor, k)
              /\ store[i].event_type = PLANNED
              /\ store[i].asset_key \in upstream[k]

----------------------------------------------------------------------------
(* C30: In-memory store event delivery (SpecStorage).  However watch,      *)
(* end_watch and store_event follow one another, every event stored is     *)
(* delivered exactly once to each callback that was registered for the     *)
(* run of the event when it was stored and to no other callback, the       *)
(* cursor passed to the callbacks is one more for each event stored, and   *)
(* an exception of a callback neither leaves store_event nor keeps the     *)
(* event from the callbacks that remain.                                   *)

\* the calls of the callback with the n-th event stored
DeliveriesOf(n, callback) ==
    {i \in DOMAIN storage.delivered :
        /\ storage.delivered[i].event = n
        /\ storage.delivered[i].callback = callback}

\* store_event has returned from storing the n-th event
Returned(n) == n < Len(storage.events) \/ storage.pending = <<>>

C30_EventDelivery ==
    /\ \A n \in DOMAIN storage.events : \A callback \in Callbacks :
          /\ callback \notin storage.registered[n] =>
                DeliveriesOf(n, callback) = {}
          /\ callback \in storage.registered[n] =>
                /\ Cardinality(DeliveriesOf(n, callback)) <= 1
                /\ Returned(n) => Cardinality(DeliveriesOf(n, callback)) = 1
    /\ \A i \in DOMAIN storage.delivered :
          /\ storage.delivered[i].cursor = storage.delivered[i].event
          /\ storage.delivered[i].run_id =
                 storage.events[storage.delivered[i].event]
    /\ ~storage.propagated
    /\ storage.result = "raised" => storage.pending = <<>>

\* the second event stored went to two callbacks, the first of which
\* raised, while the first event went to a callback of the other run
C30_Witness ==
    /\ Len(storage.events) = 2 /\ storage.pending = <<>>
    /\ storage.events[1] # storage.events[2]
    /\ storage.registered[1] # {} /\ storage.registered[1] # Callbacks
    /\ \E i, j \in DOMAIN storage.delivered :
          /\ i < j
          /\ storage.delivered[i].event = 2 /\ storage.delivered[j].event = 2
          /\ storage.delivered[i].raised

====
